---- MODULE Spec2Model ----
(***************************************************************************)
(* The Zipper server of yomo: core.Server (connection and stream accept    *)
(* loops, frame dispatch, workflow routing, function registry, data frame  *)
(* counter) and core.ParseFrame (frame decoding).                          *)
(***************************************************************************)
EXTENDS Integers, Sequences, FiniteSets, TLC

\* ------------------------------------------------------------------ bounds
MaxConns == 2
MaxStreams == 2
MaxData == 3
MaxSeq == 1

\* session.CloseWithError(0xCC, ...)
ErrCodeCC == 204

\* --------------------------------------------------------------- universes
Conns == 1..MaxConns
Streams == Conns \X (1..MaxStreams)
NoStream == <<0, 0>>

Names == {"", "A", "B"}
ClientTypes == {"Source", "StreamFunction", "UpstreamZipper", "Unknown"}
TIDs == {"t1"}
DataTags == {"tag"}
Carriages == {"x"}
Seqs == 0..MaxSeq

\* ------------------------------------------------------------ frame codec
\* First byte of a packet: the structural marker bit (0x80) and the frame tag.
Hdr(tag) == [marker |-> TRUE, tag |-> tag]

HandshakeFrame(name, ct) == [type |-> "Handshake", Name |-> name, ClientType |-> ct]
DataFrame(tid, issuer, tag, car) ==
    [type |-> "Data", tid |-> tid, issuer |-> issuer, tag |-> tag, carriage |-> car]
PingFrame == [type |-> "Ping"]
PongFrame == [type |-> "Pong"]
NoFrame == [type |-> "None"]

DataFrames == {DataFrame(t, i, g, c) : t \in TIDs, i \in Names, g \in DataTags, c \in Carriages}

\* f.Encode(): header byte followed by the fields of the frame
Encode(f) ==
    CASE f.type = "Handshake" -> <<Hdr("Handshake"), f.Name, f.ClientType>>
      [] f.type = "Data" -> <<Hdr("Data"), f.tid, f.issuer, f.tag, f.carriage>>
      [] OTHER -> <<Hdr(f.type)>>

\* frame.DecodeToHandshakeFrame: fails on a buffer that lacks a field
DecodeToHandshakeFrame(buf) ==
    IF Len(buf) = 3
    THEN [err |-> "nil", frame |-> HandshakeFrame(buf[2], buf[3])]
    ELSE [err |-> "malformed", frame |-> NoFrame]

\* frame.DecodeToDataFrame: fails on a buffer that lacks a field
DecodeToDataFrame(buf) ==
    IF Len(buf) = 5
    THEN [err |-> "nil", frame |-> DataFrame(buf[2], buf[3], buf[4], buf[5])]
    ELSE [err |-> "malformed", frame |-> NoFrame]

HandshakeBufs == {Encode(HandshakeFrame(n, ct)) : n \in Names, ct \in ClientTypes}
DataBufs == {Encode(f) : f \in DataFrames}
TruncatedBufs == {<<Hdr("Handshake")>>, <<Hdr("Handshake"), "A">>,
                  <<Hdr("Data")>>, <<Hdr("Data"), "t1", "A">>}
CorruptBufs == {<<Hdr("Bogus")>>, <<[marker |-> FALSE, tag |-> "Data"], "t1", "A", "tag", "x">>}
Buffers == HandshakeBufs \cup DataBufs \cup {Encode(PingFrame), Encode(PongFrame)}
             \cup TruncatedBufs \cup CorruptBufs

\* What y3.ReadPacket hands to ParseFrame: a packet, or a read error
ReadResults == [err : {"nil"}, buf : Buffers]
                 \cup [err : {"ErrClosed", "other"}, buf : {<<>>}]

\* readHandshakeFrame: panics when decoding fails
readHandshakeFrame(buf) ==
    LET d == DecodeToHandshakeFrame(buf)
    IN IF d.err # "nil" THEN [kind |-> "panic", frame |-> NoFrame, err |-> d.err]
       ELSE [kind |-> "frame", frame |-> d.frame, err |-> "nil"]

\* readDataFrame: panics when decoding fails
readDataFrame(buf) ==
    LET d == DecodeToDataFrame(buf)
    IN IF d.err # "nil" THEN [kind |-> "panic", frame |-> NoFrame, err |-> d.err]
       ELSE [kind |-> "frame", frame |-> d.frame, err |-> "nil"]

\* ParseFrame: kind is "frame" (returned frame), "error" (returned error)
\* or "panic" (the call does not return)
ParseFrame(rd) ==
    IF rd.err # "nil" THEN [kind |-> "error", frame |-> NoFrame, err |-> rd.err]
    ELSE LET frameType == rd.buf[1]
         IN CASE frameType = Hdr("Handshake") -> readHandshakeFrame(rd.buf)
              [] frameType = Hdr("Data") -> readDataFrame(rd.buf)
              [] frameType = Hdr("Ping") -> [kind |-> "frame", frame |-> PingFrame, err |-> "nil"]
              [] frameType = Hdr("Pong") -> [kind |-> "frame", frame |-> PongFrame, err |-> "nil"]
              [] OTHER -> [kind |-> "error", frame |-> NoFrame, err |-> "other"]

\* FrameStream.ReadFrame
ReadFrame(rd) == ParseFrame(rd)

\* What fs.ReadFrame can do in handleSession: return a frame, return an error, panic
ReadOutcomes == {ReadFrame(rd) : rd \in ReadResults}

\* ------------------------------------------------------- function registry
\* ConcurrentMap.Set
Set(m, name, stream) ==
    [n \in DOMAIN m \cup {name} |-> IF n = name THEN stream ELSE m[n]]

\* ConcurrentMap.Get
Get(m, name) == IF name \in DOMAIN m THEN m[name] ELSE NoStream

\* -------------------------------------------------------------- the state
VARIABLES
    funcBuckets,        \* Server.funcBuckets: sequence number -> token
    funcs,              \* Server.funcs: name -> stream
    counterOfDataFrame, \* Server.counterOfDataFrame
    listener,           \* the accept loop of ListenAndServe: "listening" | "returned"
    finalErr,           \* the result of ListenAndServe
    pc,                 \* position of each connection's task
    cur,                \* the frame a task is dispatching
    tmp,                \* the counter value a task loaded for its increment
    nStreams,           \* streams accepted so far on each connection
    streamClosed,       \* streams on which the server called Close()
    sess,               \* per connection: closed by CloseWithError, and the code
    out,                \* per stream: the Write calls made on it, in order
    crashed,            \* an unrecovered panic ended the process
    readErr,            \* per connection: the error that ended the latest read loop
    lastReg,            \* history: stream of the latest StreamFunction handshake per name
    dataDone            \* history: number of handleDataFrame calls that incremented

vars == <<funcBuckets, funcs, counterOfDataFrame, listener, finalErr, pc, cur, tmp,
          nStreams, streamClosed, sess, out, crashed, readErr, lastReg, dataDone>>

\* Streams accepted so far on all connections
RECURSIVE SumTo(_, _)
SumTo(f, n) == IF n = 0 THEN 0 ELSE f[n] + SumTo(f, n - 1)
TotalStreams == SumTo(nStreams, MaxConns)

\* The stream a connection's task is serving
CurStream(c) == <<c, nStreams[c]>>

\* The read loop of stream s is running
Reading(s) ==
    /\ s = CurStream(s[1])
    /\ pc[s[1]] \in {"readFrame", "store", "route"}

\* Every workflow table over the stage positions
Workflows == UNION {[S -> Names] : S \in SUBSET Seqs}

\* s.funcBuckets[i]: the zero value for an absent key
Bucket(fb, i) == IF i \in DOMAIN fb THEN fb[i] ELSE ""

InitCommon ==
    /\ funcs = <<>>
    /\ counterOfDataFrame = 0
    /\ listener = "listening"
    /\ finalErr = "nil"
    /\ cur = [c \in Conns |-> NoFrame]
    /\ tmp = [c \in Conns |-> 0]
    /\ nStreams = [c \in Conns |-> 0]
    /\ streamClosed = {}
    /\ sess = [c \in Conns |-> [closed |-> FALSE, code |-> 0]]
    /\ out = [s \in Streams |-> <<>>]
    /\ crashed = FALSE
    /\ readErr = [c \in Conns |-> "nil"]
    /\ lastReg = <<>>
    /\ dataDone = 0

\* NewServer, then AddWorkflow with the two-stage pipeline A, B
Init ==
    /\ InitCommon
    /\ funcBuckets = (0 :> "A" @@ 1 :> "B")
    /\ pc = [c \in Conns |-> "idle"]

\* ------------------------------------------------------- ListenAndServe
\* listener.Accept succeeds: a task is spawned for the connection
AcceptConn(c) ==
    /\ ~crashed
    /\ listener = "listening"
    /\ pc[c] = "idle"
    /\ \A d \in Conns : d < c => pc[d] # "idle"
    /\ pc' = [pc EXCEPT ![c] = "acceptStream"]
    /\ UNCHANGED <<funcBuckets, funcs, counterOfDataFrame, listener, finalErr, cur, tmp,
                   nStreams, streamClosed, sess, out, crashed, readErr, lastReg, dataDone>>

\* listener.Accept fails and the loop goes on with the next Accept
AcceptConnErrorContinue ==
    /\ ~crashed
    /\ listener = "listening"
    /\ finalErr = "nil"
    /\ finalErr' = "acceptErr"
    /\ UNCHANGED <<funcBuckets, funcs, counterOfDataFrame, listener, pc, cur, tmp,
                   nStreams, streamClosed, sess, out, crashed, readErr, lastReg, dataDone>>

\* listener.Accept fails: the loop breaks and the error is returned
AcceptConnError ==
    /\ ~crashed
    /\ listener = "listening"
    /\ listener' = "returned"
    /\ finalErr' = "acceptErr"
    /\ UNCHANGED <<funcBuckets, funcs, counterOfDataFrame, pc, cur, tmp,
                   nStreams, streamClosed, sess, out, crashed, readErr, lastReg, dataDone>>

\* AcceptStream in a task that starts handleSession with a go statement: the
\* next stream is accepted while the previous one is still read
AcceptStreamConcurrent(c) ==
    /\ ~crashed
    /\ pc[c] \in {"acceptStream", "readFrame"}
    /\ ~sess[c].closed
    /\ TotalStreams < MaxStreams
    /\ nStreams' = [nStreams EXCEPT ![c] = @ + 1]
    /\ pc' = [pc EXCEPT ![c] = "readFrame"]
    /\ readErr' = [readErr EXCEPT ![c] = "nil"]
    /\ UNCHANGED <<funcBuckets, funcs, counterOfDataFrame, listener, finalErr, cur, tmp,
                   streamClosed, sess, out, crashed, lastReg, dataDone>>

\* sess.AcceptStream succeeds; a closed session accepts no stream
AcceptStream(c) ==
    /\ ~crashed
    /\ pc[c] = "acceptStream"
    /\ ~sess[c].closed
    /\ TotalStreams < MaxStreams
    /\ nStreams' = [nStreams EXCEPT ![c] = @ + 1]
    /\ pc' = [pc EXCEPT ![c] = "readFrame"]
    /\ readErr' = [readErr EXCEPT ![c] = "nil"]
    /\ UNCHANGED <<funcBuckets, funcs, counterOfDataFrame, listener, finalErr, cur, tmp,
                   streamClosed, sess, out, crashed, lastReg, dataDone>>

\* The failure branch of AcceptStream with the removal its TODO describes:
\* the functions registered on the connection's streams leave the registry
AcceptStreamErrorRemoving(c) ==
    /\ ~crashed
    /\ pc[c] = "acceptStream"
    /\ pc' = [pc EXCEPT ![c] = "done"]
    /\ streamClosed' = streamClosed \cup {<<c, k>> : k \in 1..nStreams[c]}
    /\ funcs' = [n \in {m \in DOMAIN funcs : funcs[m][1] # c} |-> funcs[n]]
    /\ UNCHANGED <<funcBuckets, counterOfDataFrame, listener, finalErr, cur, tmp,
                   nStreams, sess, out, crashed, readErr, lastReg, dataDone>>

\* The failure branch of AcceptStream ending ListenAndServe as well
AcceptStreamErrorFatal(c) ==
    /\ ~crashed
    /\ pc[c] = "acceptStream"
    /\ pc' = [pc EXCEPT ![c] = "done"]
    /\ streamClosed' = streamClosed \cup {<<c, k>> : k \in 1..nStreams[c]}
    /\ listener' = "returned"
    /\ finalErr' = "acceptErr"
    /\ UNCHANGED <<funcBuckets, funcs, counterOfDataFrame, cur, tmp,
                   nStreams, sess, out, crashed, readErr, lastReg, dataDone>>

\* sess.AcceptStream fails: the task's loop breaks, the task returns and its
\* deferred stream.Close() calls run
AcceptStreamError(c) ==
    /\ ~crashed
    /\ pc[c] = "acceptStream"
    /\ pc' = [pc EXCEPT ![c] = "done"]
    /\ streamClosed' = streamClosed \cup {<<c, k>> : k \in 1..nStreams[c]}
    /\ UNCHANGED <<funcBuckets, funcs, counterOfDataFrame, listener, finalErr, cur, tmp,
                   nStreams, sess, out, crashed, readErr, lastReg, dataDone>>

\* --------------------------------------------------- handleHandShakeFrame
\* handleHandShakeFrame keeping the first registration of a name
handleHandShakeFrameFirstWins(fs, stream, f) ==
    IF f.ClientType = "StreamFunction" /\ f.Name \notin DOMAIN fs
    THEN Set(fs, f.Name, stream)
    ELSE fs

\* handleHandShakeFrame registering every client type but the unknown ones
handleHandShakeFrameAnyType(fs, stream, f) ==
    IF f.ClientType \in {"Source", "StreamFunction", "UpstreamZipper"}
    THEN Set(fs, f.Name, stream)
    ELSE fs

\* The registry after handleHandShakeFrame(stream, session, f)
handleHandShakeFrame(fs, stream, f) ==
    CASE f.ClientType = "Source" -> fs
      [] f.ClientType = "StreamFunction" -> Set(fs, f.Name, stream)
      [] f.ClientType = "UpstreamZipper" -> fs
      [] OTHER -> fs

\* -------------------------------------------------------- handleDataFrame
\* The scan with j = i in place of j = i + 1
NextIndexesSameStage(fb, issuer) ==
    LET matches == {i \in DOMAIN fb : fb[i] = issuer}
    IN IF matches = {} THEN {0} ELSE matches

\* The values j can have after the scan of s.funcBuckets: 0 when no token
\* equals the issuer, else i + 1 for the matching i the map iteration visits last
NextIndexes(fb, issuer) ==
    LET matches == {i \in DOMAIN fb : fb[i] = issuer}
    IN IF matches = {} THEN {0} ELSE {i + 1 : i \in matches}

\* handleDataFrame whose first-stage branch looks up s.funcBuckets[1]
RouteWritesFirstOffByOne(fb, fs, j, f) ==
    IF j = 0
    THEN LET targetStream == Get(fs, Bucket(fb, 1))
         IN IF targetStream = NoStream THEN <<>>
            ELSE <<[stream |-> targetStream, buf |-> Encode(f)]>>
    ELSE IF Bucket(fb, j) = "" THEN <<>>
    ELSE LET targetStream == Get(fs, Bucket(fb, j))
         IN IF targetStream # NoStream
            THEN <<[stream |-> targetStream, buf |-> Encode(f)]>>
            ELSE <<>>

\* handleDataFrame that writes the frame to the target stream a second time
RouteWritesTwice(fb, fs, j, f) ==
    IF j = 0
    THEN LET targetStream == Get(fs, Bucket(fb, 0))
         IN IF targetStream = NoStream THEN <<>>
            ELSE <<[stream |-> targetStream, buf |-> Encode(f)]>>
    ELSE IF Bucket(fb, j) = "" THEN <<>>
    ELSE LET targetStream == Get(fs, Bucket(fb, j))
         IN IF targetStream # NoStream
            THEN <<[stream |-> targetStream, buf |-> Encode(f)],
                   [stream |-> targetStream, buf |-> Encode(f)]>>
            ELSE <<>>

\* The Write calls of handleDataFrame once j is computed
RouteWrites(fb, fs, j, f) ==
    IF j = 0
    THEN LET targetStream == Get(fs, Bucket(fb, 0))
         IN IF targetStream = NoStream THEN <<>>
            ELSE <<[stream |-> targetStream, buf |-> Encode(f)]>>
    ELSE IF Bucket(fb, j) = "" THEN <<>>
    ELSE LET targetStream == Get(fs, Bucket(fb, j))
         IN IF targetStream # NoStream
            THEN <<[stream |-> targetStream, buf |-> Encode(f)]>>
            ELSE <<>>

\* out after the Write calls ws, in order; a Write on a stream whose read loop
\* has ended is made all the same (live is FALSE)
RECURSIVE ApplyWrites(_, _)
ApplyWrites(o, ws) ==
    IF ws = <<>> THEN o
    ELSE LET w == Head(ws)
         IN ApplyWrites([o EXCEPT ![w.stream] =
                           Append(@, [buf |-> w.buf, live |-> Reading(w.stream)])],
                        Tail(ws))

\* --------------------------------------------------------- handleSession
\* Data frames whose handleDataFrame has not incremented the counter yet
DataInFlight == Cardinality({c \in Conns : pc[c] = "store"})

\* fs.ReadFrame returns a Handshake frame: handleHandShakeFrame
HandleHandShakeFrame(c, r) ==
    /\ ~crashed
    /\ pc[c] = "readFrame"
    /\ r.kind = "frame"
    /\ r.frame.type = "Handshake"
    /\ funcs' = handleHandShakeFrame(funcs, CurStream(c), r.frame)
    /\ lastReg' = LET f == r.frame
                  IN IF f.ClientType = "StreamFunction"
                     THEN [n \in DOMAIN lastReg \cup {f.Name} |->
                             IF n = f.Name THEN CurStream(c) ELSE lastReg[n]]
                     ELSE lastReg
    /\ UNCHANGED <<funcBuckets, counterOfDataFrame, listener, finalErr, pc, cur, tmp,
                   nStreams, streamClosed, sess, out, crashed, readErr, dataDone>>

\* fs.ReadFrame returns a Ping frame: handlePingFrame logs
HandlePingFrame(c, r) ==
    /\ ~crashed
    /\ pc[c] = "readFrame"
    /\ r.kind = "frame"
    /\ r.frame.type = "Ping"
    /\ UNCHANGED vars

\* fs.ReadFrame returns a frame of another type: the default branch logs
HandleUnknownSignal(c, r) ==
    /\ ~crashed
    /\ pc[c] = "readFrame"
    /\ r.kind = "frame"
    /\ r.frame.type \notin {"Handshake", "Ping", "Data"}
    /\ UNCHANGED vars

\* A read loop that reads the next Data frame while handleDataFrame has not
\* routed the previous one
HandleDataLoadEarly(c, r) ==
    /\ ~crashed
    /\ pc[c] \in {"readFrame", "route"}
    /\ r.kind = "frame"
    /\ r.frame.type = "Data"
    /\ dataDone + DataInFlight < MaxData
    /\ cur' = [cur EXCEPT ![c] = r.frame]
    /\ tmp' = [tmp EXCEPT ![c] = counterOfDataFrame]
    /\ pc' = [pc EXCEPT ![c] = "store"]
    /\ UNCHANGED <<funcBuckets, funcs, counterOfDataFrame, listener, finalErr,
                   nStreams, streamClosed, sess, out, crashed, readErr, lastReg, dataDone>>

\* fs.ReadFrame returns a Data frame: handleDataFrame starts,
\* s.counterOfDataFrame++ loads the counter
HandleDataLoad(c, r) ==
    /\ ~crashed
    /\ pc[c] = "readFrame"
    /\ r.kind = "frame"
    /\ r.frame.type = "Data"
    /\ dataDone + DataInFlight < MaxData
    /\ cur' = [cur EXCEPT ![c] = r.frame]
    /\ tmp' = [tmp EXCEPT ![c] = counterOfDataFrame]
    /\ pc' = [pc EXCEPT ![c] = "store"]
    /\ UNCHANGED <<funcBuckets, funcs, counterOfDataFrame, listener, finalErr,
                   nStreams, streamClosed, sess, out, crashed, readErr, lastReg, dataDone>>

\* s.counterOfDataFrame++ stores the incremented value
HandleDataStore(c) ==
    /\ ~crashed
    /\ pc[c] = "store"
    /\ counterOfDataFrame' = tmp[c] + 1
    /\ dataDone' = dataDone + 1
    /\ pc' = [pc EXCEPT ![c] = "route"]
    /\ UNCHANGED <<funcBuckets, funcs, listener, finalErr, cur, tmp,
                   nStreams, streamClosed, sess, out, crashed, readErr, lastReg>>

\* the scan of the workflow table, the registry lookup and the write
HandleDataRoute(c) ==
    /\ ~crashed
    /\ pc[c] = "route"
    /\ \E j \in NextIndexes(funcBuckets, cur[c].issuer) :
         out' = ApplyWrites(out, RouteWrites(funcBuckets, funcs, j, cur[c]))
    /\ pc' = [pc EXCEPT ![c] = "readFrame"]
    /\ cur' = [cur EXCEPT ![c] = NoFrame]
    /\ tmp' = [tmp EXCEPT ![c] = 0]
    /\ UNCHANGED <<funcBuckets, funcs, counterOfDataFrame, listener, finalErr,
                   nStreams, streamClosed, sess, crashed, readErr, lastReg, dataDone>>

\* The net.ErrClosed branch treated like the branch of the other errors
ReadFrameClosedClosing(c, r) ==
    /\ ~crashed
    /\ pc[c] = "readFrame"
    /\ r.kind = "error"
    /\ r.err = "ErrClosed"
    /\ streamClosed' = streamClosed \cup {CurStream(c)}
    /\ sess' = [sess EXCEPT ![c] = [closed |-> TRUE, code |-> ErrCodeCC]]
    /\ pc' = [pc EXCEPT ![c] = "acceptStream"]
    /\ readErr' = [readErr EXCEPT ![c] = r.err]
    /\ UNCHANGED <<funcBuckets, funcs, counterOfDataFrame, listener, finalErr, cur, tmp,
                   nStreams, out, crashed, lastReg, dataDone>>

\* fs.ReadFrame returns net.ErrClosed: break
ReadFrameClosed(c, r) ==
    /\ ~crashed
    /\ pc[c] = "readFrame"
    /\ r.kind = "error"
    /\ r.err = "ErrClosed"
    /\ pc' = [pc EXCEPT ![c] = "acceptStream"]
    /\ readErr' = [readErr EXCEPT ![c] = r.err]
    /\ UNCHANGED <<funcBuckets, funcs, counterOfDataFrame, listener, finalErr, cur, tmp,
                   nStreams, streamClosed, sess, out, crashed, lastReg, dataDone>>

\* The error branch without session.CloseWithError
ReadFrameErrorNoClose(c, r) ==
    /\ ~crashed
    /\ pc[c] = "readFrame"
    /\ r.kind = "error"
    /\ r.err # "ErrClosed"
    /\ streamClosed' = streamClosed \cup {CurStream(c)}
    /\ pc' = [pc EXCEPT ![c] = "acceptStream"]
    /\ readErr' = [readErr EXCEPT ![c] = r.err]
    /\ UNCHANGED <<funcBuckets, funcs, counterOfDataFrame, listener, finalErr, cur, tmp,
                   nStreams, sess, out, crashed, lastReg, dataDone>>

\* fs.ReadFrame returns another error: stream.Close(),
\* session.CloseWithError(0xCC, ...), break
ReadFrameError(c, r) ==
    /\ ~crashed
    /\ pc[c] = "readFrame"
    /\ r.kind = "error"
    /\ r.err # "ErrClosed"
    /\ streamClosed' = streamClosed \cup {CurStream(c)}
    /\ sess' = [sess EXCEPT ![c] = [closed |-> TRUE, code |-> ErrCodeCC]]
    /\ pc' = [pc EXCEPT ![c] = "acceptStream"]
    /\ readErr' = [readErr EXCEPT ![c] = r.err]
    /\ UNCHANGED <<funcBuckets, funcs, counterOfDataFrame, listener, finalErr, cur, tmp,
                   nStreams, out, crashed, lastReg, dataDone>>

\* fs.ReadFrame panics: nothing recovers, the process ends
ReadFramePanic(c, r) ==
    /\ ~crashed
    /\ pc[c] = "readFrame"
    /\ r.kind = "panic"
    /\ crashed' = TRUE
    /\ UNCHANGED <<funcBuckets, funcs, counterOfDataFrame, listener, finalErr, pc, cur, tmp,
                   nStreams, streamClosed, sess, out, readErr, lastReg, dataDone>>

Next ==
    \/ \E c \in Conns : AcceptConn(c)
    \/ AcceptConnError
    \/ \E c \in Conns : AcceptStream(c)
    \/ \E c \in Conns : AcceptStreamError(c)
    \/ \E c \in Conns, r \in ReadOutcomes : HandleHandShakeFrame(c, r)
    \/ \E c \in Conns, r \in ReadOutcomes : HandlePingFrame(c, r)
    \/ \E c \in Conns, r \in ReadOutcomes : HandleUnknownSignal(c, r)
    \/ \E c \in Conns, r \in ReadOutcomes : HandleDataLoad(c, r)
    \/ \E c \in Conns : HandleDataStore(c)
    \/ \E c \in Conns : HandleDataRoute(c)
    \/ \E c \in Conns, r \in ReadOutcomes : ReadFrameClosed(c, r)
    \/ \E c \in Conns, r \in ReadOutcomes : ReadFrameError(c, r)
    \/ \E c \in Conns, r \in ReadOutcomes : ReadFramePanic(c, r)

Spec == Init /\ [][Next]_vars

\* A server whose workflow table is any table over the stage positions and
\* that serves one connection (the tasks of the others have returned)
InitRouting ==
    /\ InitCommon
    /\ funcBuckets \in Workflows
    /\ pc = [c \in Conns |-> IF c = 1 THEN "idle" ELSE "done"]

SpecRouting == InitRouting /\ [][Next]_vars

\* ------------------------------------------------------------- the claims
\* Each token of the table occupies exactly one stage
OneStagePerToken(fb) == \A i, k \in DOMAIN fb : fb[i] = fb[k] => i = k

\* The step is the routing step of handleDataFrame on connection c
RouteStep(c) == pc[c] = "route" /\ pc'[c] = "readFrame"

\* The streams written by the step
WrittenStreams == {s \in Streams : out'[s] # out[s]}

\* The step wrote frame f once to stream s, and did nothing else to s
WroteOnce(s, f) ==
    /\ Len(out'[s]) = Len(out[s]) + 1
    /\ SubSeq(out'[s], 1, Len(out[s])) = out[s]
    /\ DecodeToDataFrame(out'[s][Len(out'[s])].buf) = [err |-> "nil", frame |-> f]

\* Stage i has a token, and a stream is registered under it
StageLive(i) == Bucket(funcBuckets, i) # "" /\ Bucket(funcBuckets, i) \in DOMAIN funcs

\* C1: in a table where each token occupies one stage, a Data frame whose
\* issuer is the token of stage i is written to the stream registered under
\* the token of stage i + 1 when that stage has a registered token, and to no
\* stream otherwise.
C1_ForwardToNextStage ==
    [][\A c \in Conns : \A i \in DOMAIN funcBuckets :
         (RouteStep(c) /\ OneStagePerToken(funcBuckets) /\ funcBuckets[i] = cur[c].issuer)
         => IF StageLive(i + 1)
            THEN /\ WrittenStreams = {funcs[funcBuckets[i + 1]]}
                 /\ WroteOnce(funcs[funcBuckets[i + 1]], cur[c])
            ELSE WrittenStreams = {}]_vars

\* A frame whose issuer is a token of a one-stage-per-token table was forwarded
C1_Witness ==
    /\ OneStagePerToken(funcBuckets)
    /\ \E s \in Streams : \E k \in 1..Len(out[s]) : \E i \in DOMAIN funcBuckets :
         /\ funcBuckets[i] = out[s][k].buf[3]
         /\ Get(funcs, Bucket(funcBuckets, i + 1)) = s

\* C2: a Data frame whose issuer is no token of the table is written to the
\* stream registered under the token of stage 0, when there is one, and to no
\* other stream.
C2_NoMatchToStageZero ==
    [][\A c \in Conns :
         (/\ RouteStep(c)
          /\ \A i \in DOMAIN funcBuckets : funcBuckets[i] # cur[c].issuer
          /\ 0 \in DOMAIN funcBuckets
          /\ funcBuckets[0] \in DOMAIN funcs)
         => /\ WrittenStreams = {funcs[funcBuckets[0]]}
            /\ WroteOnce(funcs[funcBuckets[0]], cur[c])]_vars

\* A frame whose issuer is no token of the table was written to stage 0's stream
C2_Witness ==
    /\ 0 \in DOMAIN funcBuckets
    /\ \E s \in Streams : \E k \in 1..Len(out[s]) :
         /\ \A i \in DOMAIN funcBuckets : funcBuckets[i] # out[s][k].buf[3]
         /\ Get(funcs, funcBuckets[0]) = s

\* C3: when the target stage index (0, or i + 1) has no token, unset or empty,
\* the frame is written to no stream, whatever the registry holds.
C3_NoTokenNoWrite ==
    [][\A c \in Conns :
         (/\ RouteStep(c)
          /\ \A j \in NextIndexes(funcBuckets, cur[c].issuer) : Bucket(funcBuckets, j) = "")
         => WrittenStreams = {}]_vars

\* C4: a Data frame causes at most one write, to one stream, of the content
\* that was received; no other step of the server writes (nothing is written
\* twice, nothing is written later).
C4_AtMostOneVerbatimWrite ==
    [][/\ (\A c \in Conns : ~RouteStep(c)) => out' = out
       /\ \A c \in Conns : RouteStep(c) =>
            \/ out' = out
            \/ \E s \in Streams : WrittenStreams = {s} /\ WroteOnce(s, cur[c])]_vars

\* A Data frame was written to a stream
C4_Witness == \E s \in Streams : out[s] # <<>>

\* C5: the registry lookup of a name returns the stream of the latest
\* StreamFunction handshake with that name, and nothing when there was none.
C5_LastRegistrationWins ==
    \A n \in Names :
      Get(funcs, n) = IF n \in DOMAIN lastReg THEN lastReg[n] ELSE NoStream

\* The token of stage 0 was registered on a stream s, which received a frame
\* of an issuer outside the table, and was registered again on a stream t,
\* which the lookup now returns
C5_Witness ==
    \E s, t \in Streams :
      /\ s # t
      /\ \E k \in 1..Len(out[s]) :
           \A i \in DOMAIN funcBuckets : funcBuckets[i] # out[s][k].buf[3]
      /\ Get(funcs, Bucket(funcBuckets, 0)) = t

\* No task is inside handleDataFrame
NoDataFrameInProgress == \A c \in Conns : pc[c] \notin {"store", "route"}

\* C6: once the handleDataFrame calls of all tasks have completed, the
\* counter equals the number of calls.
C6_CounterExact == NoDataFrameInProgress => counterOfDataFrame = dataDone

\* C7: ParseFrame returns a frame or an error for every buffer; no call panics.
C7_ParseFrameNeverPanics == ~crashed

\* The read results that decode to a Handshake frame
HandshakeReads ==
    {r \in ReadOutcomes : r.kind = "frame" /\ r.frame.type = "Handshake"}

RegistersName(n) ==
    \E c \in Conns : \E r \in HandshakeReads :
      /\ r.frame.ClientType = "StreamFunction"
      /\ r.frame.Name = n
      /\ HandleHandShakeFrame(c, r)

\* C9: an entry of the registry changes only by a later StreamFunction
\* handshake with the same name; after its stream has ended the entry still
\* names it, and a Data frame routed to the name is written to that stream.
C9_StaleEntryKept ==
    [][/\ \A n \in DOMAIN funcs :
            \/ Get(funcs', n) = funcs[n]
            \/ RegistersName(n)
       /\ \A c \in Conns : RouteStep(c) =>
            \A j \in NextIndexes(funcBuckets, cur[c].issuer) :
              (/\ OneStagePerToken(funcBuckets)
               /\ j # 0
               /\ StageLive(j)
               /\ ~Reading(funcs[funcBuckets[j]]))
              => WroteOnce(funcs[funcBuckets[j]], cur[c])]_vars

\* A Data frame was written to a registered stream whose read loop had ended
C9_Witness ==
    \E n \in DOMAIN funcs : \E k \in 1..Len(out[funcs[n]]) :
      ~out[funcs[n]][k].live /\ ~Reading(funcs[n])

\* C10: a read error other than net.ErrClosed closes the stream and closes the
\* session with code 0xCC; from then on the connection accepts no stream and
\* processes no frame.
C10_ErrorClosesSession ==
    [][\A c \in Conns :
         /\ readErr'[c] = "other" =>
              /\ sess'[c] = [closed |-> TRUE, code |-> ErrCodeCC]
              /\ CurStream(c) \in streamClosed'
         /\ readErr[c] = "other" =>
              /\ nStreams'[c] = nStreams[c]
              /\ pc'[c] \in {"acceptStream", "done"}
              /\ pc[c] \in {"acceptStream", "done"}]_vars

\* A session was closed after a read error, and its task has returned since
C10_Witness == \E c \in Conns : readErr[c] = "other" /\ sess[c].closed /\ pc[c] = "done"

\* C11: when a read fails with net.ErrClosed, the task stops reading the
\* stream, closes neither a stream nor a session, and is back at accepting the
\* next stream of the connection, whose session is open.
C11_BenignCloseKeepsSession ==
    [][\A c \in Conns :
         (pc[c] = "readFrame" /\ readErr'[c] = "ErrClosed") =>
           /\ pc'[c] = "acceptStream"
           /\ nStreams'[c] = nStreams[c]
           /\ sess' = sess
           /\ ~sess'[c].closed
           /\ streamClosed' = streamClosed]_vars

\* The first stream of a connection ended without a close, and a handshake of
\* the second stream was processed
C11_Witness ==
    \E c \in Conns :
      /\ nStreams[c] = 2
      /\ ~sess[c].closed
      /\ <<c, 1>> \notin streamClosed
      /\ \E n \in DOMAIN funcs : funcs[n] = <<c, 2>>

\* C12: the first failure of listener.Accept ends the accept loop: the error
\* becomes the value ListenAndServe returns, it returns at once, and no
\* connection is accepted afterwards.
C12_AcceptErrorEndsServing ==
    [][/\ (finalErr' # finalErr \/ listener' # listener) =>
            /\ listener = "listening"
            /\ finalErr = "nil"
            /\ listener' = "returned"
            /\ finalErr' = "acceptErr"
       /\ listener = "returned" =>
            \A c \in Conns : pc[c] = "idle" => pc'[c] = "idle"]_vars

\* ListenAndServe returned the error after one connection, and another
\* connection was never accepted
C12_Witness ==
    /\ listener = "returned"
    /\ finalErr = "acceptErr"
    /\ \E c, d \in Conns : pc[c] = "idle" /\ pc[d] # "idle"

\* The streams of connection c whose read loop is running
ReadingStreams(c) == {s \in Streams : s[1] = c /\ Reading(s)}

\* C13: a connection has at most one stream whose read loop runs; a stream is
\* accepted only when no read loop of the connection runs; and a frame that is
\* processed is a frame of the stream being read, never of a later one.
C13_OneStreamAtATime ==
    [][/\ \A c \in Conns :
            /\ Cardinality(ReadingStreams(c)) <= 1
            /\ nStreams'[c] # nStreams[c] =>
                 /\ ReadingStreams(c) = {}
                 /\ pc[c] = "acceptStream"
                 /\ nStreams'[c] = nStreams[c] + 1
                 /\ ReadingStreams(c)' = {<<c, nStreams[c] + 1>>}
       /\ \A n \in Names :
            Get(funcs', n) # Get(funcs, n) =>
              \E c \in Conns : ReadingStreams(c) = {Get(funcs', n)}]_vars

\* A connection reads its second stream
C13_Witness == \E c \in Conns : nStreams[c] = 2 /\ pc[c] = "readFrame"

\* out' extends out: what the step writes on a stream comes after everything
\* written on it before
WritesAppended ==
    \A s \in Streams :
      /\ Len(out'[s]) >= Len(out[s])
      /\ SubSeq(out'[s], 1, Len(out[s])) = out[s]

\* C14: the frames of a stream are dispatched in the order they are read. A
\* task reads a Data frame only when it dispatches none, keeps it until its
\* routing step, whose write goes behind the earlier writes on the target
\* stream, and reads the next frame after that; the registration of a
\* handshake read before is in the registry when a Data frame is routed.
C14_DispatchInArrivalOrder ==
    [][/\ WritesAppended
       /\ \A c \in Conns :
            /\ cur'[c] # cur[c] =>
                 \/ cur[c] = NoFrame /\ pc[c] = "readFrame" /\ pc'[c] = "store"
                 \/ cur'[c] = NoFrame /\ RouteStep(c)
            /\ pc[c] = "store" => pc'[c] \in {"store", "route"}
            /\ pc[c] = "route" => pc'[c] \in {"route", "readFrame"}
            /\ RouteStep(c) =>
                 /\ \A s \in WrittenStreams : WroteOnce(s, cur[c])
                 /\ \A n \in DOMAIN lastReg : Get(funcs, n) = lastReg[n]]_vars

\* One stream only was served, and two of its Data frames were written to the
\* stream itself
C14_Witness ==
    /\ pc[2] = "idle"
    /\ nStreams[1] = 1
    /\ Len(out[<<1, 1>>]) >= 2

\* The stages whose token is the issuer of the frame connection c dispatches
Matches(c) == {i \in DOMAIN funcBuckets : funcBuckets[i] = cur[c].issuer}

\* C15: when the issuer's token is at more than one stage, the target is the
\* stage after the lowest matching one: the routing step does what
\* handleDataFrame does with that target, whatever the order of the scan.
C15_FirstMatchDecides ==
    [][\A c \in Conns :
         (RouteStep(c) /\ Cardinality(Matches(c)) > 1) =>
           LET first == CHOOSE i \in Matches(c) : \A k \in Matches(c) : i <= k
           IN out' = ApplyWrites(out, RouteWrites(funcBuckets, funcs, first + 1, cur[c]))]_vars

\* C16: no step makes the counter smaller.
C16_CounterMonotonic == [][counterOfDataFrame' >= counterOfDataFrame]_vars

\* What fs.ReadFrame does with a packet that was read but is no frame: an
\* unknown first byte, or a Handshake or Data body that does not decode
DecodeFailures ==
    {ReadFrame(rd) : rd \in {x \in ReadResults : x.err = "nil"}}
      \ {r \in ReadOutcomes : r.kind = "frame"}

\* C17: a packet that does not decode is handled locally: the read loop goes
\* on with the next frame of the stream, the process lives, and no stream and
\* no session is closed.
C17_DecodeFailureIsLocal ==
    [][\A c \in Conns : \A r \in DecodeFailures :
         (pc[c] = "readFrame" /\ (ReadFrameError(c, r) \/ ReadFramePanic(c, r))) =>
           /\ pc'[c] = "readFrame"
           /\ ~crashed'
           /\ sess' = sess
           /\ streamClosed' = streamClosed]_vars

\* No stream is registered under the target token of the frame connection c
\* dispatches, whichever index the scan yields
TargetUnregistered(c) ==
    \A j \in NextIndexes(funcBuckets, cur[c].issuer) :
      Bucket(funcBuckets, j) \notin DOMAIN funcs

\* C18: a Data frame whose target token is not registered is dropped without
\* harm: its handleDataFrame makes the counter one larger and changes nothing
\* else; registry and table stay, no stream and no session is closed, and the
\* read loop goes on.
C18_DropChangesOnlyCounter ==
    [][\A c \in Conns :
         /\ (pc[c] = "store" /\ pc'[c] = "route" /\ TargetUnregistered(c)) =>
              counterOfDataFrame' = counterOfDataFrame + 1
         /\ (RouteStep(c) /\ TargetUnregistered(c)) =>
              /\ out' = out
              /\ funcs' = funcs
              /\ funcBuckets' = funcBuckets
              /\ counterOfDataFrame' = counterOfDataFrame
              /\ sess' = sess
              /\ streamClosed' = streamClosed
              /\ ~crashed'
              /\ pc'[c] = "readFrame"]_vars

\* C19: a failure of sess.AcceptStream ends the task of its connection only:
\* the listener goes on as it was, the process lives, and the task, session,
\* streams and registrations of every other connection are untouched.
C19_StreamAcceptErrorIsLocal ==
    [][\A c \in Conns :
         (pc[c] = "acceptStream" /\ pc'[c] = "done") =>
           /\ listener' = listener
           /\ finalErr' = finalErr
           /\ ~crashed'
           /\ funcs' = funcs
           /\ \A s \in streamClosed' \ streamClosed : s[1] = c
           /\ \A d \in Conns \ {c} :
                /\ pc'[d] = pc[d]
                /\ sess'[d] = sess[d]
                /\ nStreams'[d] = nStreams[d]]_vars

\* The task of one connection has returned; the listener still accepts, and
\* another connection reads a stream on which a function is registered
C19_Witness ==
    \E c, d \in Conns :
      /\ c # d
      /\ pc[c] = "done"
      /\ listener = "listening"
      /\ pc[d] = "readFrame"
      /\ \E n \in DOMAIN funcs : funcs[n] = CurStream(d)

\* The stage of token n in a one-stage-per-token table, -1 when it has none
StageOf(fb, n) ==
    IF \E i \in DOMAIN fb : fb[i] = n THEN CHOOSE i \in DOMAIN fb : fb[i] = n ELSE -1

\* C20: in a table where each token occupies one stage, a routing step that
\* writes the frame does not write it to the stream registered under the
\* frame's issuer, and writes it to the stream of a stage of the table that
\* lies after the issuer's stage (so that a payload re-emitted by each receiver
\* under its own name climbs the stages and is dropped after the last one).
C20_NoSelfForwarding ==
    [][\A c \in Conns :
         (RouteStep(c) /\ OneStagePerToken(funcBuckets) /\ WrittenStreams # {}) =>
           /\ Get(funcs, cur[c].issuer) \notin WrittenStreams
           /\ \E j \in DOMAIN funcBuckets :
                /\ j > StageOf(funcBuckets, cur[c].issuer)
                /\ WrittenStreams = {Get(funcs, funcBuckets[j])}]_vars

====
